---- MODULE Spec2Model ----
(***************************************************************************)
(* The LTV risk control loop of the ETH-SOL volatility strategy:           *)
(* StrategyEngine (backend/services/strategy_engine.py), the request       *)
(* handlers that drive it (backend/routes/api_routes.py), the alert        *)
(* writer (backend/utils/notifications.py) and the exchange client         *)
(* (backend/services/binance_client.py).                                   *)
(*                                                                         *)
(* Amounts and prices are whole numbers; every ratio (an LTV, a repay or   *)
(* borrow amount) is an exact fraction [n, d], compared by cross           *)
(* multiplication, so that a boundary value is hit exactly.                *)
(***************************************************************************)
EXTENDS Integers, Sequences, FiniteSets, TLC

----------------------------------------------------------------------------
(* Fractions *)

RECURSIVE GCD(_, _)
GCD(a, b) == IF b = 0 THEN a ELSE GCD(b, a % b)
Abs(x) == IF x < 0 THEN -x ELSE x

\* n/d in lowest terms, d > 0.
Rat(n, d) == LET g == GCD(Abs(n), d) IN [n |-> n \div g, d |-> d \div g]
RMul(a, b) == Rat(a.n * b.n, a.d * b.d)
RDiv(a, b) == Rat(a.n * b.d, a.d * b.n)
RAdd(a, b) == Rat(a.n * b.d + b.n * a.d, a.d * b.d)
RSub(a, b) == Rat(a.n * b.d - b.n * a.d, a.d * b.d)
Whole(x) == [n |-> x, d |-> 1]
Zero == Whole(0)
RLt(a, b) == a.n * b.d < b.n * a.d
RLe(a, b) == a.n * b.d <= b.n * a.d
REq(a, b) == a.n * b.d = b.n * a.d
RGt(a, b) == RLt(b, a)
RGe(a, b) == RLe(b, a)

RECURSIVE SeqSum(_)
SeqSum(s) == IF s = <<>> THEN 0 ELSE Head(s) + SeqSum(Tail(s))

----------------------------------------------------------------------------
(* Strategy parameters *)

TARGET_LTV_MIN == Rat(55, 100)
TARGET_LTV_MAX == Rat(65, 100)
DANGER_LTV == Rat(70, 100)
EMERGENCY_LTV == Rat(75, 100)
REBALANCE_THRESHOLD == Rat(5, 100)

----------------------------------------------------------------------------
(* Bounds of the model *)

\* Host operations (scheduler ticks and requests) started in one behaviour.
MaxOps == 2

Pids == {1, 2}
Assets == {"ETH", "SOL"}
Prices == {1, 2}
Schedulers == {"s1", "s2"}
Api == {"a1"}
Workers == Schedulers \cup Api

----------------------------------------------------------------------------
(* The exchange account behind the (single, process-wide) BinanceClient.   *)

SpotRow(a, f, l) == [asset |-> a, free |-> f, locked |-> l]
EarnRow(a, id, t, f) == [asset |-> a, productId |-> id, totalAmount |-> t, freeAmount |-> f]
LoanRow(id, c, s, t) == [orderId |-> id, loanCoin |-> c, status |-> s, totalAmount |-> t]

\* 80 ETH and 20 SOL of collateral: 100 USD at unit prices.
SpotFunded == << SpotRow("ETH", 40, 0), SpotRow("SOL", 15, 5), SpotRow("BTC", 3, 0) >>
FlexFunded == << EarnRow("ETH", "E1", 30, 10), EarnRow("SOL", "S1", 0, 0),
                 EarnRow("BTC", "B1", 9, 9), EarnRow("ETH", "E2", 5, 0) >>
LockedFunded == << EarnRow("ETH", "E9", 5, 0) >>

SingleLoanAmounts == {54, 55, 60, 65, 66, 69, 70, 74, 75, 80}
LoanBooks ==
    { << LoanRow("L1", "ETH", "BORROWING", x) >> : x \in SingleLoanAmounts } \cup
    { << >>,
      << LoanRow("L1", "ETH", "BORROWING", 30), LoanRow("L2", "SOL", "BORROWING", 40) >>,
      << LoanRow("L1", "SOL", "BORROWING", 50), LoanRow("L2", "ETH", "BORROWING", 30) >>,
      << LoanRow("L1", "ETH", "REPAID", 30), LoanRow("L2", "ETH", "BORROWING", 72) >>,
      << LoanRow("L1", "BTC", "BORROWING", 100), LoanRow("L2", "ETH", "BORROWING", 60) >>,
      << LoanRow("L1", "ETH", "BORROWING", 36), LoanRow("L2", "ETH", "BORROWING", 36) >> }

Accounts ==
    { [spot |-> SpotFunded, flexible |-> FlexFunded, locked |-> LockedFunded, loans |-> lb] :
        lb \in LoanBooks } \cup
    { [spot |-> << SpotRow("ETH", 0, 7) >>, flexible |-> << >>, locked |-> << >>,
       loans |-> << LoanRow("L1", "ETH", "BORROWING", 10) >>] }

----------------------------------------------------------------------------
VARIABLES
    account,      \* the exchange account: spot, flexible, locked, loans
    price,        \* the exchange's ticker price of each asset
    portfolios,   \* table portfolios: the persisted row of each portfolio
    ledger,       \* table transactions, in insertion order
    alerts,       \* table system_alerts, in insertion order
    is_running,   \* StrategyEngine.is_running
    last_prices,  \* StrategyEngine.last_prices
    pc,           \* where each worker thread stands
    job,          \* each worker's locals: the operation, the portfolios left, the current one
    pending,      \* each worker's database session: attribute values not yet committed
    cyc,          \* each worker's record of the cycle it runs or last ran
    left,         \* host operations the behaviour may still start
    host,         \* "serial": one operation at a time; "threaded": workers interleave
    dbFaulty      \* the database may refuse a commit

vars == << account, price, portfolios, ledger, alerts, is_running, last_prices,
           pc, job, pending, cyc, left, host, dbFaulty >>

----------------------------------------------------------------------------
(* The database session of one worker (Flask-SQLAlchemy db.session).       *)
(* A session value D carries the tables, the worker's uncommitted          *)
(* attribute writes and the objects added since the last commit.           *)

Fields == {"eth_balance", "sol_balance", "eth_price", "sol_price",
           "total_value", "current_ltv", "target_ltv_min", "target_ltv_max", "status"}

BlankRow == [eth_balance |-> 0, sol_balance |-> 0, eth_price |-> 0, sol_price |-> 0,
             total_value |-> 0, current_ltv |-> Zero,
             target_ltv_min |-> Zero, target_ltv_max |-> Zero, status |-> ""]
CleanAttrs == [dirty |-> {}, val |-> BlankRow]
CleanSession == [p \in Pids |-> CleanAttrs]

\* A portfolio as initialize_portfolio creates it: the capital split 50/50,
\* the band of the column defaults.
NewPortfolio == [eth_balance |-> 50, sol_balance |-> 50, eth_price |-> 1, sol_price |-> 1,
                 total_value |-> 100, current_ltv |-> Zero,
                 target_ltv_min |-> Rat(55, 100), target_ltv_max |-> Rat(65, 100),
                 status |-> "active"]

Session(w) == [rows |-> portfolios, pend |-> pending[w], ledger |-> ledger,
               alerts |-> alerts, adds |-> << >>]

\* Reading an attribute: the uncommitted write if there is one, else the row.
Attr(D, p, f) == IF f \in D.pend[p].dirty THEN D.pend[p].val[f] ELSE D.rows[p][f]

SetAttr(D, p, f, v) ==
    [D EXCEPT !.pend[p] = [dirty |-> D.pend[p].dirty \cup {f},
                           val |-> [D.pend[p].val EXCEPT ![f] = v]]]

Add(D, kind, obj) == [D EXCEPT !.adds = Append(@, [kind |-> kind, obj |-> obj])]

Flush(row, attrs) == [f \in Fields |-> IF f \in attrs.dirty THEN attrs.val[f] ELSE row[f]]

OfKind(adds, kind) ==
    LET sel == SelectSeq(adds, LAMBDA a : a.kind = kind)
    IN  [i \in 1..Len(sel) |-> sel[i].obj]

\* A variant of commit that rewrites the tables from the added objects alone.
CommitReplacing(D, ok) ==
    IF ok
    THEN [rows |-> [p \in Pids |-> Flush(D.rows[p], D.pend[p])],
          pend |-> CleanSession,
          ledger |-> OfKind(D.adds, "txn"),
          alerts |-> OfKind(D.adds, "alert"),
          adds |-> << >>]
    ELSE [D EXCEPT !.pend = CleanSession, !.adds = << >>]

\* A variant of commit that writes a ledger row of its own at every commit.
CommitWithAudit(D, ok) ==
    IF ok
    THEN [rows |-> [p \in Pids |-> Flush(D.rows[p], D.pend[p])],
          pend |-> CleanSession,
          ledger |-> (D.ledger \o OfKind(D.adds, "txn"))
                       \o << [user_id |-> 0, transaction_type |-> "COMMIT", eth_amount |-> 0,
                              sol_amount |-> 0, ltv_ratio |-> Zero] >>,
          alerts |-> D.alerts \o OfKind(D.adds, "alert"),
          adds |-> << >>]
    ELSE [D EXCEPT !.pend = CleanSession, !.adds = << >>]

\* db.session.commit(): writes every uncommitted attribute and added object;
\* a refused commit rolls the session back, dropping both.
commit(D, ok) ==
    IF ok
    THEN [rows |-> [p \in Pids |-> Flush(D.rows[p], D.pend[p])],
          pend |-> CleanSession,
          ledger |-> D.ledger \o OfKind(D.adds, "txn"),
          alerts |-> D.alerts \o OfKind(D.adds, "alert"),
          adds |-> << >>]
    ELSE [D EXCEPT !.pend = CleanSession, !.adds = << >>]

CommitOutcomes == IF dbFaulty THEN BOOLEAN ELSE {TRUE}

----------------------------------------------------------------------------
(* BinanceClient reads and the calls that change the account.              *)

\* get_spot_balance: the rows of the account with a positive free amount.
get_spot_balance == SelectSeq(account.spot, LAMBDA b : b.free > 0)

get_earn_balance == [flexible |-> account.flexible, locked |-> account.locked]

get_loan_data == [rows |-> account.loans]

get_symbol_price(asset) == price[asset]

\* Seconds: the timeout of one HTTP request (_make_request), the wait between
\* the redeems and the repays of a liquidation, the pause between the redeem
\* and the subscribe of a harvest, and the interval of the scheduler's job.
REQUEST_TIMEOUT == 30
SETTLE_WAIT == 10
HARVEST_PAUSE == 1
SCHEDULER_INTERVAL == 300

\* One borrow, repay, redeem or subscribe request, the seconds its function
\* sleeps just before issuing it, and whether it returned.
Call(kind, ref, amount) ==
    [kind |-> kind, ref |-> ref, amount |-> amount, wait |-> 0, ok |-> TRUE]

\* The requests a function issues when the k-th of its planned requests raises
\* (k = 0: none does): the loop's try block ends at the first request that raises.
Issued(plan, k) ==
    IF k = 0 THEN plan
    ELSE [i \in 1..k |-> IF i = k THEN [plan[i] EXCEPT !.ok = FALSE] ELSE plan[i]]

Raised(k) == k # 0

----------------------------------------------------------------------------
(* StrategyEngine: the pure parts.                                         *)

_get_total_balance(asset, spot_balances, earn_balances) ==
    SeqSum([i \in 1..Len(spot_balances) |->
              IF spot_balances[i].asset = asset
              THEN spot_balances[i].free + spot_balances[i].locked ELSE 0])
  + SeqSum([i \in 1..Len(earn_balances.flexible) |->
              IF earn_balances.flexible[i].asset = asset
              THEN earn_balances.flexible[i].totalAmount ELSE 0])
  + SeqSum([i \in 1..Len(earn_balances.locked) |->
              IF earn_balances.locked[i].asset = asset
              THEN earn_balances.locked[i].totalAmount ELSE 0])

\* A variant of lines 139-140 without the test of the status: every loan in
\* ETH or SOL is valued, whatever its status.
ValuedLoansAnyStatus(loan_data) ==
    SelectSeq(loan_data.rows, LAMBDA loan : loan.loanCoin \in Assets)

\* The loans whose price _calculate_total_borrowed_value asks for.
ValuedLoans(loan_data) ==
    SelectSeq(loan_data.rows, LAMBDA loan : loan.status = "BORROWING" /\ loan.loanCoin \in Assets)

_calculate_total_borrowed_value(loan_data) ==
    LET rows == ValuedLoans(loan_data)
    IN  SeqSum([i \in 1..Len(rows) |-> rows[i].totalAmount * get_symbol_price(rows[i].loanCoin)])

\* A variant of line 102 without the guard on the collateral value: the
\* borrowed value is kept when there is no collateral to divide by.
LtvOfUnguarded(total_borrowed_value, total_collateral_value) ==
    IF total_collateral_value > 0
    THEN Rat(total_borrowed_value, total_collateral_value)
    ELSE Whole(total_borrowed_value)

\* Line 102 of _update_portfolio_data.
LtvOf(total_borrowed_value, total_collateral_value) ==
    IF total_collateral_value > 0
    THEN Rat(total_borrowed_value, total_collateral_value)
    ELSE Zero

\* A variant of the risk check with strict comparisons.
\* A variant of the risk check that liquidates from the danger threshold on.
RiskBranchEager(current_ltv) ==
    IF RGe(current_ltv, DANGER_LTV) THEN "emergency" ELSE "normal"

RiskBranchStrict(current_ltv) ==
    IF RGt(current_ltv, EMERGENCY_LTV) THEN "emergency"
    ELSE IF RGt(current_ltv, DANGER_LTV) THEN "danger"
    ELSE "normal"

\* The risk check of _process_portfolio: the handler the cycle goes on with.
RiskBranch(current_ltv) ==
    IF RGe(current_ltv, EMERGENCY_LTV) THEN "emergency"
    ELSE IF RGe(current_ltv, DANGER_LTV) THEN "danger"
    ELSE "normal"

\* A variant of the leverage decision whose band excludes its two ends.
LeverageBranchOpenBand(current_ltv) ==
    IF RLe(current_ltv, TARGET_LTV_MIN) THEN "increase"
    ELSE IF RGe(current_ltv, TARGET_LTV_MAX) THEN "decrease"
    ELSE "none"

\* A variant of the leverage decision that consults the state of the engine:
\* outside a pass of the scheduler it always borrows.
LeverageBranchByGuard(current_ltv) ==
    IF ~is_running THEN "increase"
    ELSE IF RLt(current_ltv, TARGET_LTV_MIN) THEN "increase"
    ELSE IF RGt(current_ltv, TARGET_LTV_MAX) THEN "decrease"
    ELSE "none"

\* The leverage decision of _normal_operation.
LeverageBranch(current_ltv) ==
    IF RLt(current_ltv, TARGET_LTV_MIN) THEN "increase"
    ELSE IF RGt(current_ltv, TARGET_LTV_MAX) THEN "decrease"
    ELSE "none"

\* _check_price_movements, as the new value of last_prices.
Moved(new, old) ==
    LET diff == IF new >= old THEN new - old ELSE old - new
    IN  RGt(Rat(diff, old), REBALANCE_THRESHOLD)

_check_price_movements(eth_price, sol_price) ==
    IF last_prices["ETH"] = 0
    THEN [ETH |-> eth_price, SOL |-> sol_price]
    ELSE IF Moved(eth_price, last_prices["ETH"]) \/ Moved(sol_price, last_prices["SOL"])
         THEN [ETH |-> eth_price, SOL |-> sol_price]
         ELSE last_prices

\* _decrease_leverage: the repay requests of its loop, in order.
RepayFraction(aggressive) == IF aggressive THEN Rat(5, 10) ELSE Rat(2, 10)

RepayAmount(loan, aggressive) == RMul(Whole(loan.totalAmount), RepayFraction(aggressive))

\* A variant of the balance check of _decrease_leverage that passes every
\* ETH or SOL loan.
CoveredAlways(loan, aggressive, eth_balance, sol_balance) ==
    loan.loanCoin \in {"ETH", "SOL"}

Covered(loan, aggressive, eth_balance, sol_balance) ==
    \/ loan.loanCoin = "ETH" /\ RGe(Whole(eth_balance), RepayAmount(loan, aggressive))
    \/ loan.loanCoin = "SOL" /\ RGe(Whole(sol_balance), RepayAmount(loan, aggressive))

DecreasePlan(loans, aggressive, eth_balance, sol_balance) ==
    LET due == SelectSeq(loans.rows, LAMBDA loan :
                   loan.status = "BORROWING" /\ Covered(loan, aggressive, eth_balance, sol_balance))
    IN  [i \in 1..Len(due) |-> Call("repay", due[i].orderId, RepayAmount(due[i], aggressive))]

\* A variant of _increase_leverage without the minimum size of a leg.
IncreasePlanNoMinimum(total_value, current_ltv, eth_price, sol_price) ==
    LET additional_borrow_needed ==
            RSub(RMul(Whole(total_value), Rat(60, 100)), RMul(Whole(total_value), current_ltv))
    IN  IF RLe(additional_borrow_needed, Zero) THEN << >>
        ELSE << Call("borrow", "ETH",
                     RDiv(RMul(additional_borrow_needed, Rat(5, 10)), Whole(eth_price))),
                Call("borrow", "SOL",
                     RDiv(RMul(additional_borrow_needed, Rat(5, 10)), Whole(sol_price))) >>

\* A variant of _increase_leverage that aims at the upper end of the band and
\* takes the value of a leg for its amount.
IncreasePlanToMax(total_value, current_ltv, eth_price, sol_price) ==
    LET additional_borrow_needed ==
            RSub(RMul(Whole(total_value), TARGET_LTV_MAX), RMul(Whole(total_value), current_ltv))
        leg == RMul(additional_borrow_needed, Rat(5, 10))
    IN  IF RLe(additional_borrow_needed, Zero) THEN << >>
        ELSE (IF RGt(leg, Rat(1, 1000)) THEN << Call("borrow", "ETH", leg) >> ELSE << >>)
          \o (IF RGt(leg, Rat(1, 1000)) THEN << Call("borrow", "SOL", leg) >> ELSE << >>)

\* _increase_leverage: the borrow requests, in order.
MinBorrow == Rat(1, 1000)

IncreasePlan(total_value, current_ltv, eth_price, sol_price) ==
    LET target_ltv == RDiv(RAdd(TARGET_LTV_MIN, TARGET_LTV_MAX), Whole(2))
        current_collateral_value == Whole(total_value)
        target_borrowed_value == RMul(current_collateral_value, target_ltv)
        current_borrowed_value == RMul(current_collateral_value, current_ltv)
        additional_borrow_needed == RSub(target_borrowed_value, current_borrowed_value)
        eth_borrow_value == RMul(additional_borrow_needed, Rat(5, 10))
        sol_borrow_value == RMul(additional_borrow_needed, Rat(5, 10))
        eth_borrow_amount == RDiv(eth_borrow_value, Whole(eth_price))
        sol_borrow_amount == RDiv(sol_borrow_value, Whole(sol_price))
    IN  IF RLe(additional_borrow_needed, Zero) THEN << >>
        ELSE (IF RGt(eth_borrow_amount, MinBorrow)
              THEN << Call("borrow", "ETH", eth_borrow_amount) >> ELSE << >>)
          \o (IF RGt(sol_borrow_amount, MinBorrow)
              THEN << Call("borrow", "SOL", sol_borrow_amount) >> ELSE << >>)

\* _harvest_earn_rewards: per harvestable position a redeem, then a subscribe.
Harvestable(earn_balances) ==
    SelectSeq(earn_balances.flexible, LAMBDA position :
        position.asset \in Assets /\ position.totalAmount > 0 /\ position.freeAmount > 0)

\* A variant of the harvester that subscribes every flexible position in ETH
\* or SOL again at once, without a redeem and without the pause.
HarvestPlanSubscribing(earn_balances) ==
    LET pos == SelectSeq(earn_balances.flexible, LAMBDA position :
                   position.asset \in Assets /\ position.totalAmount > 0)
    IN  [i \in 1..Len(pos) |->
           Call("subscribe", pos[i].productId, Whole(pos[i].freeAmount))]

HarvestPlan(earn_balances) ==
    LET pos == Harvestable(earn_balances)
    IN  [i \in 1..(2 * Len(pos)) |->
           IF i % 2 = 1
           THEN Call("redeem", pos[(i + 1) \div 2].productId, Whole(pos[(i + 1) \div 2].freeAmount))
           ELSE [Call("subscribe", pos[i \div 2].productId, Whole(pos[i \div 2].freeAmount))
                   EXCEPT !.wait = HARVEST_PAUSE]]

\* A variant of the redeems of _liquidate_all_positions that subscribes each
\* redeemed amount again, as the harvester does.
RedeemAndResubscribe(earn_balances) == HarvestPlan(earn_balances)

\* _liquidate_all_positions: the redeems before the wait, the repays after it.
RedeemPlan(earn_balances) ==
    LET pos == SelectSeq(earn_balances.flexible, LAMBDA position :
                   position.asset \in Assets /\ position.totalAmount > 0)
    IN  [i \in 1..Len(pos) |-> Call("redeem", pos[i].productId, Whole(pos[i].totalAmount))]

RepayAllPlan(loans) ==
    LET due == SelectSeq(loans.rows, LAMBDA loan : loan.status = "BORROWING")
    IN  [i \in 1..Len(due) |-> Call("repay", due[i].orderId, Whole(due[i].totalAmount))]

\* send_alert as the engine calls it: title and message only, so the
\* severity and the type are the defaults of the signature.
send_alert(D, title, ok) ==
    commit(Add(D, "alert", [title |-> title, severity |-> "INFO", alert_type |-> "SYSTEM"]), ok)

\* A variant of _log_transaction that commits without adding a row.
LogNothing(D, p, transaction_type, ok) == commit(D, ok)

_log_transaction(D, p, transaction_type, ok) ==
    commit(Add(D, "txn", [user_id |-> p,
                          transaction_type |-> transaction_type,
                          eth_amount |-> Attr(D, p, "eth_balance"),
                          sol_amount |-> Attr(D, p, "sol_balance"),
                          ltv_ratio |-> Attr(D, p, "current_ltv")]), ok)

\* What one try block around a request loop can do: issue its planned requests
\* up to one that raises, or raise at the query that precedes them.
TryOutcomes(plan, query) ==
    { [calls |-> Issued(plan, k), raised |-> Raised(k), queried |-> TRUE] : k \in 0..Len(plan) } \cup
    (IF query THEN { [calls |-> << >>, raised |-> TRUE, queried |-> FALSE] } ELSE {})

----------------------------------------------------------------------------
(* Workers and their cycles *)

Idle == [op |-> "none", todo |-> << >>, cur |-> 0]

\* pid, op: the portfolio and the operation (tick, manual, estop) of the cycle;
\* phase: running, done or aborted; snap: _update_portfolio_data returned, with
\* ltv, borrowed and collateral what it computed; handler: the handler entered;
\* leverage: the decision of _normal_operation; harvest: _harvest_earn_rewards
\* was called; loans: the loans _decrease_leverage read (none: it read none);
\* calls: the borrow, repay, redeem and subscribe requests issued, in order;
\* raised: a read or a request of the handler raised (and was logged);
\* txns: the rows the cycle appended to the ledger.
NoCycle == [pid |-> 0, op |-> "none", phase |-> "none", snap |-> FALSE,
            ltv |-> Zero, borrowed |-> 0, collateral |-> 0,
            handler |-> "none", leverage |-> "none", harvest |-> FALSE,
            loans |-> "none", calls |-> << >>, raised |-> FALSE, txns |-> 0]

NewCycle(p, op) == [NoCycle EXCEPT !.pid = p, !.op = op, !.phase = "running"]

\* The record of a cycle is kept until the host starts its next operation.
Forget == [v \in Workers |-> IF pc[v] = "idle" THEN NoCycle ELSE cyc[v]]

RECURSIVE Ascending(_)
Ascending(S) ==
    IF S = {} THEN << >>
    ELSE LET m == CHOOSE x \in S : \A y \in S : x <= y
         IN  << m >> \o Ascending(S \ {m})

Live == IF host = "serial" THEN {"s1", "a1"} ELSE Workers

CanStart(w) ==
    /\ w \in Live
    /\ pc[w] = "idle"
    /\ left > 0
    /\ host = "serial" => \A v \in Workers : pc[v] = "idle"

\* Where a worker goes when the cycle of its current portfolio has ended: a
\* tick goes on with its list, a request returns and its session is removed.
NextPc(w) == IF job[w].op = "tick" THEN "process" ELSE "idle"
Kept(w, pend) == IF job[w].op = "tick" THEN pend ELSE CleanSession

Store(w, D, ending) ==
    /\ portfolios' = D.rows
    /\ ledger' = D.ledger
    /\ alerts' = D.alerts
    /\ pending' = [pending EXCEPT ![w] = IF ending THEN Kept(w, D.pend) ELSE D.pend]

\* A variant of the end of a cycle in which the except clause of
\* _process_portfolio writes a ledger row for a cycle that was aborted.
EndCycleRecording(w, D, c, j) ==
    /\ Store(w, IF c.phase = "aborted" THEN _log_transaction(D, c.pid, "ERROR", TRUE) ELSE D, TRUE)
    /\ pc' = [pc EXCEPT ![w] = NextPc(w)]
    /\ job' = [job EXCEPT ![w] = IF NextPc(w) = "idle" THEN Idle ELSE j]
    /\ cyc' = [cyc EXCEPT ![w] = c]

\* A variant of the end of a cycle in which an aborted cycle ends the pass:
\* the portfolios left on the list are dropped.
EndCycleStopping(w, D, c, j) ==
    /\ Store(w, D, TRUE)
    /\ pc' = [pc EXCEPT ![w] = NextPc(w)]
    /\ job' = [job EXCEPT ![w] = IF NextPc(w) = "idle" THEN Idle
                                 ELSE IF c.phase = "aborted" THEN [j EXCEPT !.todo = << >>]
                                 ELSE j]
    /\ cyc' = [cyc EXCEPT ![w] = c]

EndCycle(w, D, c, j) ==
    /\ Store(w, D, TRUE)
    /\ pc' = [pc EXCEPT ![w] = NextPc(w)]
    /\ job' = [job EXCEPT ![w] = IF NextPc(w) = "idle" THEN Idle ELSE j]
    /\ cyc' = [cyc EXCEPT ![w] = c]

----------------------------------------------------------------------------
(* run_automation_cycle *)

\* A variant of lines 35-37 in which the tick that finds the guard set clears
\* it as it returns.
TickCheckClearing(w) ==
    /\ w \in Schedulers
    /\ CanStart(w)
    /\ left' = left - 1
    /\ IF is_running
       THEN /\ job' = [job EXCEPT ![w] = [Idle EXCEPT !.op = "skipped"]]
            /\ pc' = pc
            /\ is_running' = FALSE
       ELSE /\ job' = [job EXCEPT ![w] = [Idle EXCEPT !.op = "tick"]]
            /\ pc' = [pc EXCEPT ![w] = "acquire"]
            /\ is_running' = is_running
    /\ cyc' = Forget
    /\ UNCHANGED << account, price, portfolios, ledger, alerts, last_prices,
                    pending, host, dbFaulty >>

\* Lines 35-37: the guard is read; the tick returns if it is set.
TickCheck(w) ==
    /\ w \in Schedulers
    /\ CanStart(w)
    /\ left' = left - 1
    /\ IF is_running
       THEN /\ job' = [job EXCEPT ![w] = [Idle EXCEPT !.op = "skipped"]]
            /\ pc' = pc
       ELSE /\ job' = [job EXCEPT ![w] = [Idle EXCEPT !.op = "tick"]]
            /\ pc' = [pc EXCEPT ![w] = "acquire"]
    /\ cyc' = Forget
    /\ UNCHANGED << account, price, portfolios, ledger, alerts, is_running, last_prices,
                    pending, host, dbFaulty >>

\* A variant of lines 39-44 whose query loads every portfolio, whatever its
\* status.
TickAcquireAll(w) ==
    /\ pc[w] = "acquire"
    /\ is_running' = TRUE
    /\ pc' = [pc EXCEPT ![w] = "process"]
    /\ \E loaded \in CommitOutcomes, a_ok \in CommitOutcomes :
         IF loaded
         THEN /\ a_ok
              /\ job' = [job EXCEPT ![w].todo = Ascending(Pids)]
              /\ UNCHANGED << portfolios, ledger, alerts, pending >>
         ELSE /\ job' = [job EXCEPT ![w].todo = << >>]
              /\ Store(w, send_alert(Session(w), "Strategy Engine Error", a_ok), FALSE)
    /\ UNCHANGED << account, price, last_prices, cyc, left, host, dbFaulty >>

\* Lines 39-44 (and 49-51 when the query raises): the guard is set and the
\* active portfolios are loaded.
TickAcquire(w) ==
    /\ pc[w] = "acquire"
    /\ is_running' = TRUE
    /\ pc' = [pc EXCEPT ![w] = "process"]
    /\ \E loaded \in CommitOutcomes, a_ok \in CommitOutcomes :
         LET D == Session(w)
             active == { p \in Pids : Attr(D, p, "status") = "active" }
         IN  IF loaded
             THEN /\ a_ok
                  /\ job' = [job EXCEPT ![w].todo = Ascending(active)]
                  /\ UNCHANGED << portfolios, ledger, alerts, pending >>
             ELSE /\ job' = [job EXCEPT ![w].todo = << >>]
                  /\ Store(w, send_alert(D, "Strategy Engine Error", a_ok), FALSE)
    /\ UNCHANGED << account, price, last_prices, cyc, left, host, dbFaulty >>

\* A variant of lines 52-54 that returns without clearing the guard.
TickFinallyKeeping(w) ==
    /\ pc[w] = "process"
    /\ job[w].op = "tick"
    /\ job[w].todo = << >>
    /\ pc' = [pc EXCEPT ![w] = "idle"]
    /\ job' = [job EXCEPT ![w] = Idle]
    /\ UNCHANGED << account, price, portfolios, ledger, alerts, is_running, last_prices,
                    pending, cyc, left, host, dbFaulty >>

\* Lines 52-54: the loop is over; the guard is cleared.
TickFinally(w) ==
    /\ pc[w] = "process"
    /\ job[w].op = "tick"
    /\ job[w].todo = << >>
    /\ is_running' = FALSE
    /\ pc' = [pc EXCEPT ![w] = "idle"]
    /\ job' = [job EXCEPT ![w] = Idle]
    /\ UNCHANGED << account, price, portfolios, ledger, alerts, last_prices,
                    pending, cyc, left, host, dbFaulty >>

----------------------------------------------------------------------------
(* _process_portfolio and _update_portfolio_data *)

\* Lines 83-95: the balances, the loans and the two prices are read and the
\* portfolio object gets its balances and prices.  A read that raises ends
\* the cycle (lines 110-112 and 76-77).
UpdateFetch(w) ==
    /\ pc[w] = "process"
    /\ job[w].todo # << >>
    /\ LET p == Head(job[w].todo)
           D0 == Session(w)
           spot_balances == get_spot_balance
           earn_balances == get_earn_balance
           D1 == SetAttr(D0, p, "eth_balance",
                         _get_total_balance("ETH", spot_balances, earn_balances))
           D2 == SetAttr(D1, p, "sol_balance",
                         _get_total_balance("SOL", spot_balances, earn_balances))
           D3 == SetAttr(D2, p, "eth_price", get_symbol_price("ETH"))
           D4 == SetAttr(D3, p, "sol_price", get_symbol_price("SOL"))
           next == [job[w] EXCEPT !.todo = Tail(@), !.cur = p]
       IN  \E read \in BOOLEAN :
             IF read
             THEN /\ Store(w, D4, FALSE)
                  /\ pc' = [pc EXCEPT ![w] = "value"]
                  /\ job' = [job EXCEPT ![w] = next]
                  /\ cyc' = [cyc EXCEPT ![w] = NewCycle(p, job[w].op)]
             ELSE EndCycle(w, D0, [NewCycle(p, job[w].op) EXCEPT !.phase = "aborted"], next)
    /\ UNCHANGED << account, price, is_running, last_prices, left, host, dbFaulty >>

\* Lines 98-108, then the risk check of lines 66-74: the loans are valued at
\* the price asked for now, value and LTV are set and committed, and the
\* cycle goes on with the handler of its risk level.
UpdateValue(w) ==
    /\ pc[w] = "value"
    /\ LET p == job[w].cur
           D0 == Session(w)
           loan_data == get_loan_data
           eth_price == Attr(D0, p, "eth_price")
           sol_price == Attr(D0, p, "sol_price")
           total_collateral_value == Attr(D0, p, "eth_balance") * eth_price
                                   + Attr(D0, p, "sol_balance") * sol_price
           total_borrowed_value == _calculate_total_borrowed_value(loan_data)
           D1 == SetAttr(D0, p, "total_value", total_collateral_value)
           D2 == SetAttr(D1, p, "current_ltv",
                         LtvOf(total_borrowed_value, total_collateral_value))
       IN  \E priced \in (IF ValuedLoans(loan_data) = << >> THEN {TRUE} ELSE BOOLEAN),
              ok \in CommitOutcomes :
             IF ~priced
             THEN /\ ok
                  /\ EndCycle(w, D0, [cyc[w] EXCEPT !.phase = "aborted"], job[w])
                  /\ UNCHANGED last_prices
             ELSE IF ~ok
             THEN /\ EndCycle(w, commit(D2, FALSE), [cyc[w] EXCEPT !.phase = "aborted"], job[w])
                  /\ UNCHANGED last_prices
             ELSE LET D3 == commit(D2, TRUE)
                  IN  /\ Store(w, D3, FALSE)
                      /\ last_prices' = _check_price_movements(eth_price, sol_price)
                      /\ pc' = [pc EXCEPT ![w] = RiskBranch(Attr(D3, p, "current_ltv"))]
                      /\ job' = job
                      /\ cyc' = [cyc EXCEPT ![w] =
                                   [@ EXCEPT !.snap = TRUE,
                                             !.ltv = Attr(D3, p, "current_ltv"),
                                             !.borrowed = total_borrowed_value,
                                             !.collateral = total_collateral_value]]
    /\ UNCHANGED << account, price, is_running, left, host, dbFaulty >>

----------------------------------------------------------------------------
(* The three handlers of a cycle *)

\* The record of a cycle that ends: the requests it issued last and the
\* ledger rows it appended.
Done(c, D0, D, calls) ==
    [c EXCEPT !.phase = "done",
              !.calls = @ \o calls,
              !.txns = @ + (Len(D.ledger) - Len(D0.ledger))]

\* _normal_operation (lines 169-186): harvest, then the leverage decision,
\* then the ledger entry.
_normal_operation(w) ==
    /\ pc[w] = "normal"
    /\ LET p == job[w].cur
           D0 == Session(w)
           current_ltv == Attr(D0, p, "current_ltv")
           leverage == LeverageBranch(current_ltv)
           plan == IF leverage = "increase"
                   THEN IncreasePlan(Attr(D0, p, "total_value"), current_ltv,
                                     Attr(D0, p, "eth_price"), Attr(D0, p, "sol_price"))
                   ELSE IF leverage = "decrease"
                   THEN DecreasePlan(get_loan_data, FALSE,
                                     Attr(D0, p, "eth_balance"), Attr(D0, p, "sol_balance"))
                   ELSE << >>
       IN  \E harvest \in TryOutcomes(HarvestPlan(get_earn_balance), TRUE),
              adjust \in TryOutcomes(plan, leverage = "decrease"),
              l_ok \in CommitOutcomes :
             LET D1 == _log_transaction(D0, p, "NORMAL_OPERATION", l_ok)
             IN  EndCycle(w, D1,
                          Done([cyc[w] EXCEPT !.handler = "_normal_operation",
                                              !.harvest = TRUE,
                                              !.leverage = leverage,
                                              !.raised = harvest.raised \/ adjust.raised,
                                              !.loans = IF leverage = "decrease" /\ adjust.queried
                                                        THEN "read" ELSE "none"],
                               D0, D1, harvest.calls \o adjust.calls),
                          job[w])
    /\ UNCHANGED << account, price, is_running, last_prices, left, host, dbFaulty >>

\* _danger_zone_management (lines 188-204).
_danger_zone_management(w) ==
    /\ pc[w] = "danger"
    /\ LET p == job[w].cur
           D0 == Session(w)
           plan == DecreasePlan(get_loan_data, TRUE,
                                Attr(D0, p, "eth_balance"), Attr(D0, p, "sol_balance"))
       IN  \E adjust \in TryOutcomes(plan, TRUE),
              a_ok \in CommitOutcomes, l_ok \in CommitOutcomes :
             LET D1 == send_alert(D0, "Danger Zone Alert", a_ok)
                 D2 == _log_transaction(D1, p, "DANGER_ZONE", l_ok)
             IN  EndCycle(w, D2,
                          Done([cyc[w] EXCEPT !.handler = "_danger_zone_management",
                                              !.raised = adjust.raised,
                                              !.loans = IF adjust.queried THEN "read" ELSE "none"],
                               D0, D2, adjust.calls),
                          job[w])
    /\ UNCHANGED << account, price, is_running, last_prices, left, host, dbFaulty >>

\* Lines 217-227 of _emergency_liquidation: the alert, the ledger entry and
\* the final commit, each of which may be refused on its own.
Report(w, D0, D, c) ==
    LET p == job[w].cur
    IN  \E a_ok \in CommitOutcomes, l_ok \in CommitOutcomes, c_ok \in CommitOutcomes :
          LET D1 == send_alert(D, "EMERGENCY LIQUIDATION", a_ok)
              D2 == _log_transaction(D1, p, "EMERGENCY_LIQUIDATION", l_ok)
              D3 == commit(D2, c_ok)
          IN  EndCycle(w, D3, Done(c, D0, D3, << >>), job[w])

\* _emergency_liquidation up to the wait of _liquidate_all_positions (lines
\* 209-215, 315-326): the status is set on the portfolio object and every
\* flexible position is redeemed.  A request that raises ends
\* _liquidate_all_positions (lines 334-335), and the handler reports at once.
_emergency_liquidation(w) ==
    /\ pc[w] = "emergency"
    /\ LET p == job[w].cur
           D0 == Session(w)
           D1 == SetAttr(D0, p, "status", "emergency")
       IN  \E redeem \in TryOutcomes(RedeemPlan(get_earn_balance), TRUE) :
             LET c == [cyc[w] EXCEPT !.handler = "_emergency_liquidation",
                                     !.raised = redeem.raised,
                                     !.calls = @ \o redeem.calls]
             IN  IF redeem.raised
                 THEN Report(w, D0, D1, c)
                 ELSE /\ Store(w, D1, FALSE)
                      /\ pc' = [pc EXCEPT ![w] = "settle"]
                      /\ job' = job
                      /\ cyc' = [cyc EXCEPT ![w] = c]
    /\ UNCHANGED << account, price, is_running, last_prices, left, host, dbFaulty >>

\* After the wait (line 329): the loans are read; if the read raises, the
\* handler reports at once.
LiquidateLoans(w) ==
    /\ pc[w] = "settle"
    /\ \E read \in BOOLEAN :
         IF read
         THEN /\ pc' = [pc EXCEPT ![w] = "repay"]
              /\ UNCHANGED << portfolios, ledger, alerts, pending, job, cyc >>
         ELSE Report(w, Session(w), Session(w), [cyc[w] EXCEPT !.raised = TRUE])
    /\ UNCHANGED << account, price, is_running, last_prices, left, host, dbFaulty >>

\* The repay loop (lines 330-332): every BORROWING loan is repaid in full,
\* up to a request that raises; then the handler reports.
_liquidate_all_positions(w) ==
    /\ pc[w] = "repay"
    /\ \E repay \in TryOutcomes(RepayAllPlan(get_loan_data), FALSE) :
         Report(w, Session(w), Session(w),
                [cyc[w] EXCEPT !.raised = repay.raised, !.calls = @ \o repay.calls])
    /\ UNCHANGED << account, price, is_running, last_prices, left, host, dbFaulty >>

----------------------------------------------------------------------------
(* The request handlers of api_routes.py that reach the engine or the status *)

\* manual_rebalance: _process_portfolio on the caller's portfolio.
manual_rebalance(w, p) ==
    /\ w \in Api
    /\ CanStart(w)
    /\ left' = left - 1
    /\ pc' = [pc EXCEPT ![w] = "process"]
    /\ job' = [job EXCEPT ![w] = [op |-> "manual", todo |-> << p >>, cur |-> 0]]
    /\ cyc' = Forget
    /\ UNCHANGED << account, price, portfolios, ledger, alerts, is_running, last_prices,
                    pending, host, dbFaulty >>

\* emergency_stop: _emergency_liquidation on the caller's portfolio as loaded.
emergency_stop(w, p) ==
    /\ w \in Api
    /\ CanStart(w)
    /\ left' = left - 1
    /\ pc' = [pc EXCEPT ![w] = "emergency"]
    /\ job' = [job EXCEPT ![w] = [op |-> "estop", todo |-> << >>, cur |-> p]]
    /\ cyc' = [Forget EXCEPT ![w] = [NewCycle(p, "estop") EXCEPT
                                       !.ltv = portfolios[p].current_ltv]]
    /\ UNCHANGED << account, price, portfolios, ledger, alerts, is_running, last_prices,
                    pending, host, dbFaulty >>

SetStatus(w, p, status) ==
    /\ w \in Api
    /\ CanStart(w)
    /\ left' = left - 1
    /\ \E ok \in CommitOutcomes :
         LET D == commit(SetAttr(Session(w), p, "status", status), ok)
         IN  /\ portfolios' = D.rows
             /\ pending' = [pending EXCEPT ![w] = CleanSession]
    /\ cyc' = Forget
    /\ UNCHANGED << account, price, ledger, alerts, is_running, last_prices,
                    pc, job, host, dbFaulty >>

start_automation(w, p) == SetStatus(w, p, "active")

\* The bodies of the settings requests, as pairs of minimum and maximum: a
\* band that reaches the limit of the check, a band above it, a reversed
\* band, and a request without a minimum.
LtvInputs ==
    { << Rat(60, 100), Rat(70, 100) >>, << Rat(60, 100), Rat(71, 100) >>,
      << Rat(70, 100), Rat(60, 100) >>, << Zero, Rat(65, 100) >> }

\* The checks of update_ltv_settings (lines 369-373).
Rejected(target_ltv_min, target_ltv_max) ==
    \/ REq(target_ltv_min, Zero) \/ REq(target_ltv_max, Zero)
    \/ RGe(target_ltv_min, target_ltv_max)
    \/ RGt(target_ltv_max, Rat(70, 100))

\* update_ltv_settings: a band that passes the checks is stored.
update_ltv_settings(w, p) ==
    /\ w \in Api
    /\ CanStart(w)
    /\ left' = left - 1
    /\ \E band \in LtvInputs, ok \in CommitOutcomes :
         IF Rejected(band[1], band[2])
         THEN ok /\ UNCHANGED << portfolios, pending >>
         ELSE LET D0 == Session(w)
                  D1 == SetAttr(D0, p, "target_ltv_min", band[1])
                  D2 == SetAttr(D1, p, "target_ltv_max", band[2])
                  D3 == commit(D2, ok)
              IN  /\ portfolios' = D3.rows
                  /\ pending' = [pending EXCEPT ![w] = CleanSession]
    /\ cyc' = Forget
    /\ UNCHANGED << account, price, ledger, alerts, is_running, last_prices,
                    pc, job, host, dbFaulty >>

stop_automation(w, p) == SetStatus(w, p, "paused")

----------------------------------------------------------------------------
(* Specifications *)

\* The ledger entry initialize_portfolio writes for a new portfolio.
Initialization(p) ==
    [user_id |-> p, transaction_type |-> "INITIALIZATION",
     eth_amount |-> NewPortfolio.eth_balance, sol_amount |-> NewPortfolio.sol_balance,
     ltv_ratio |-> NewPortfolio.current_ltv]

\* The program after construction and initialize_portfolio for each portfolio.
Started(n, h, faulty) ==
    /\ portfolios = [p \in Pids |-> NewPortfolio]
    /\ ledger = [i \in 1..Cardinality(Pids) |-> Initialization(Ascending(Pids)[i])]
    /\ alerts = << >>
    /\ is_running = FALSE
    /\ last_prices = [ETH |-> 0, SOL |-> 0]
    /\ pc = [w \in Workers |-> "idle"]
    /\ job = [w \in Workers |-> Idle]
    /\ pending = [w \in Workers |-> CleanSession]
    /\ cyc = [w \in Workers |-> NoCycle]
    /\ left = n
    /\ host = h
    /\ dbFaulty = faulty

InitWith(accounts, n, h, faulty) ==
    /\ account \in accounts
    /\ price \in [Assets -> Prices]
    /\ Started(n, h, faulty)

Init == InitWith(Accounts, MaxOps, "serial", FALSE)

\* Three accounts for the runs in which workers interleave or commits are refused.
DangerAccount == CHOOSE a \in Accounts :
    Len(a.loans) = 2 /\ a.loans[1].totalAmount = 30 /\ a.loans[2].totalAmount = 40
EmergencyAccount == CHOOSE a \in Accounts :
    Len(a.loans) = 1 /\ a.loans[1].totalAmount = 80
SafeAccount == CHOOSE a \in Accounts :
    Len(a.loans) = 1 /\ a.loans[1].totalAmount = 60

InitThreaded ==
    /\ InitWith({SafeAccount, DangerAccount, EmergencyAccount}, MaxOps, "threaded", FALSE)
    /\ price = [a \in Assets |-> 1]

InitDbFault ==
    /\ InitWith({SafeAccount, DangerAccount, EmergencyAccount}, MaxOps, "serial", TRUE)
    /\ price = [a \in Assets |-> 1]

\* Accounts and prices for the leverage adjustment: a holding of 1 SOL and
\* nothing else, for which the ETH leg of a borrow is 0.3 / eth_price; the
\* funded account without loans; loan books with a loan that the balance of
\* its coin does not cover (half of 60 SOL, a fifth of 105 SOL, against 20
\* SOL held); two loans in SOL of which the balance covers each half but not
\* both; and loan books in the band above the target.
DustAccount ==
    [spot |-> << SpotRow("SOL", 1, 0) >>, flexible |-> << >>, locked |-> << >>, loans |-> << >>]

AdjustLoanBooks ==
    { << >>,
      << LoanRow("L1", "SOL", "BORROWING", 60), LoanRow("L2", "ETH", "BORROWING", 10) >>,
      << LoanRow("L1", "SOL", "BORROWING", 105), LoanRow("L2", "ETH", "BORROWING", 53) >>,
      << LoanRow("L1", "ETH", "BORROWING", 30), LoanRow("L2", "SOL", "BORROWING", 38) >>,
      << LoanRow("L1", "SOL", "BORROWING", 36), LoanRow("L2", "SOL", "BORROWING", 36) >>,
      << LoanRow("L1", "ETH", "REPAID", 30), LoanRow("L2", "BTC", "BORROWING", 9),
         LoanRow("L3", "ETH", "BORROWING", 67) >> }

\* Loans and no collateral: the spot row has nothing free and is filtered out.
BareAccount ==
    [spot |-> << SpotRow("ETH", 0, 7) >>, flexible |-> << >>, locked |-> << >>,
     loans |-> << LoanRow("L1", "ETH", "BORROWING", 10) >>]

AdjustAccounts ==
    { DustAccount, BareAccount } \cup
    { [spot |-> SpotFunded, flexible |-> FlexFunded, locked |-> LockedFunded, loans |-> lb] :
        lb \in AdjustLoanBooks }

AdjustPrices ==
    { [ETH |-> 1, SOL |-> 1], [ETH |-> 2, SOL |-> 1],
      [ETH |-> 300, SOL |-> 1], [ETH |-> 1000, SOL |-> 1] }

InitAdjust ==
    /\ account \in AdjustAccounts
    /\ price \in AdjustPrices
    /\ Started(MaxOps, "serial", FALSE)

\* Accounts for the interleaving of ticks: 80 ETH and 20 SOL in the spot
\* wallet, nothing in Earn, and one ETH loan in the band, in the danger range
\* or past the emergency threshold.
SpotOnlyAccounts ==
    { [spot |-> << SpotRow("ETH", 80, 0), SpotRow("SOL", 20, 0) >>,
       flexible |-> << >>, locked |-> << >>,
       loans |-> << LoanRow("L1", "ETH", "BORROWING", x) >>] : x \in {60, 70, 80} }

InitTicks ==
    /\ account \in SpotOnlyAccounts
    /\ price = [a \in Assets |-> 1]
    /\ Started(MaxOps, "threaded", FALSE)

\* Accounts for the harvester: two flexible positions with a free amount
\* (10 of 30 ETH in E1, 5 of 20 SOL in S1), one in another asset and one with
\* nothing free; collateral 80 ETH + 40 SOL, and no loan or one ETH loan in
\* the band, above it, in the danger range or past the emergency threshold.
HarvestFlex ==
    << EarnRow("ETH", "E1", 30, 10), EarnRow("BTC", "B1", 9, 9),
       EarnRow("SOL", "S1", 20, 5), EarnRow("ETH", "E2", 5, 0) >>

HarvestAccounts ==
    { [spot |-> SpotFunded, flexible |-> HarvestFlex, locked |-> LockedFunded, loans |-> lb] :
        lb \in { << >> } \cup { << LoanRow("L1", "ETH", "BORROWING", x) >> : x \in {72, 80, 84, 96} } }

InitHarvest ==
    /\ account \in HarvestAccounts
    /\ price = [a \in Assets |-> 1]
    /\ Started(MaxOps, "serial", FALSE)

Next ==
    \E w \in Workers :
         \/ TickCheck(w)
         \/ TickAcquire(w)
         \/ TickFinally(w)
         \/ UpdateFetch(w)
         \/ UpdateValue(w)
         \/ _normal_operation(w)
         \/ _danger_zone_management(w)
         \/ _emergency_liquidation(w)
         \/ LiquidateLoans(w)
         \/ _liquidate_all_positions(w)
         \/ \E p \in Pids :
              \/ manual_rebalance(w, p)
              \/ emergency_stop(w, p)
              \/ start_automation(w, p)
              \/ stop_automation(w, p)
              \/ update_ltv_settings(w, p)

\* One operation at a time, a database that accepts every commit, prices
\* that stay where they are.
Spec == Init /\ [][Next]_vars

\* The threaded host (app.run(threaded=True), scheduler threads): the steps of
\* ticks and requests interleave.
SpecThreaded == InitThreaded /\ [][Next]_vars

\* One operation at a time, and a database that may refuse any commit.
SpecDbFault == InitDbFault /\ [][Next]_vars

\* The threaded host over the spot-only accounts.
SpecTicks == InitTicks /\ [][Next]_vars

\* One operation at a time, over the accounts and prices of the leverage
\* adjustment.
SpecAdjust == InitAdjust /\ [][Next]_vars

\* A thread that has entered a function goes on to its end: the steps of a
\* running worker are taken, the start of a new operation is not forced.
Step(w) ==
    \/ TickAcquire(w)
    \/ TickFinally(w)
    \/ UpdateFetch(w)
    \/ UpdateValue(w)
    \/ _normal_operation(w)
    \/ _danger_zone_management(w)
    \/ _emergency_liquidation(w)
    \/ LiquidateLoans(w)
    \/ _liquidate_all_positions(w)

\* One operation at a time over the account past the emergency threshold.
InitProgress ==
    /\ account = EmergencyAccount
    /\ price = [a \in Assets |-> 1]
    /\ Started(MaxOps, "serial", FALSE)

SpecProgress == InitProgress /\ [][Next]_vars /\ \A w \in Workers : WF_vars(Step(w))

\* The venue quotes another price: get_symbol_price returns what the ticker
\* says at the time of the request.  The ticker moves at any time; the moves
\* that a snapshot can tell apart are those between its reads of lines 88-89
\* and those of lines 144-146, and only these are taken.
PriceMove ==
    /\ \E w \in Workers : pc[w] = "value"
    /\ price' \in [Assets -> Prices] \ {price}
    /\ UNCHANGED << account, portfolios, ledger, alerts, is_running, last_prices,
                    pc, job, pending, cyc, left, host, dbFaulty >>

NextMarket == Next \/ PriceMove

\* One operation at a time on a market that moves.
InitMarket ==
    /\ InitWith({SafeAccount, DangerAccount, EmergencyAccount}, MaxOps, "serial", FALSE)
    /\ price = [a \in Assets |-> 1]

SpecMarket == InitMarket /\ [][NextMarket]_vars

\* One operation at a time, over the accounts of the harvester.
SpecHarvest == InitHarvest /\ [][Next]_vars

----------------------------------------------------------------------------
(* Properties of a cycle.                                                  *)

Finished(c) == c.phase = "done" /\ c.snap
Kinds(c) == { c.calls[k].kind : k \in 1..Len(c.calls) }
CallsFor(c, kind, ref) ==
    { k \in 1..Len(c.calls) : c.calls[k].kind = kind /\ c.calls[k].ref = ref }

\* The five ranges of the LTV.
InUnder(l) == RLt(l, TARGET_LTV_MIN)
InSafe(l) == RGe(l, TARGET_LTV_MIN) /\ RLe(l, TARGET_LTV_MAX)
InOver(l) == RGt(l, TARGET_LTV_MAX) /\ RLt(l, DANGER_LTV)
InDanger(l) == RGe(l, DANGER_LTV) /\ RLt(l, EMERGENCY_LTV)
InEmergency(l) == RGe(l, EMERGENCY_LTV)

\* The tier of the path a finished cycle took.
TakenTier(c) ==
    IF c.handler = "_emergency_liquidation" THEN "EMERGENCY"
    ELSE IF c.handler = "_danger_zone_management" THEN "DANGER"
    ELSE IF c.leverage = "increase" THEN "NORMAL-under"
    ELSE IF c.leverage = "decrease" THEN "NORMAL-over"
    ELSE "NORMAL-safe"

\* C1: when _update_portfolio_data has returned, the stored total value is the
\* collateral value it computed and the stored LTV is the borrowed value
\* divided by that collateral value, or 0 when the collateral value is 0,
\* whatever the borrowed value.
C1_LtvIsBorrowedOverCollateral ==
    \A w \in Workers :
      LET c == cyc[w]
      IN  (c.snap /\ pc[w] \in {"normal", "danger", "emergency"}) =>
            /\ portfolios[c.pid].total_value = c.collateral
            /\ portfolios[c.pid].current_ltv = c.ltv
            /\ IF c.collateral = 0
               THEN c.ltv = Zero
               ELSE c.ltv.n * c.collateral = c.borrowed * c.ltv.d

\* A refresh that found loans but no collateral.
C1_Witness ==
    \E w \in Workers :
      /\ cyc[w].snap /\ pc[w] \in {"normal", "danger", "emergency"}
      /\ cyc[w].collateral = 0 /\ cyc[w].borrowed > 0 /\ cyc[w].ltv = Zero

\* C2: the LTV of a finished cycle lies in exactly one of the five ranges
\* (under: below 0.55; safe: 0.55 to 0.65, both included; over: above 0.65 and
\* below 0.70; danger: from 0.70, below 0.75; emergency: from 0.75), and the
\* path the cycle took is the one of that range.
C2_TierTotalAndExclusive ==
    \A w \in Workers :
      LET c == cyc[w]
          hit == { t \in {"NORMAL-under", "NORMAL-safe", "NORMAL-over", "DANGER", "EMERGENCY"} :
                     \/ t = "NORMAL-under" /\ InUnder(c.ltv)
                     \/ t = "NORMAL-safe" /\ InSafe(c.ltv)
                     \/ t = "NORMAL-over" /\ InOver(c.ltv)
                     \/ t = "DANGER" /\ InDanger(c.ltv)
                     \/ t = "EMERGENCY" /\ InEmergency(c.ltv) }
      IN  Finished(c) => hit = { TakenTier(c) }

\* A cycle whose LTV is exactly the emergency threshold.
C2_Witness ==
    \E w \in Workers :
      /\ Finished(cyc[w])
      /\ REq(cyc[w].ltv, EMERGENCY_LTV)
      /\ TakenTier(cyc[w]) = "EMERGENCY"

\* A worker is inside the cycle of a portfolio from the moment
\* _update_portfolio_data has read the account until its handler has returned.
InCycle(w) == pc[w] \in {"value", "normal", "danger", "emergency", "settle", "repay"}

\* C3: whatever the interleaving of ticks, manual rebalances and emergency
\* stops, no two workers are inside a cycle of the same portfolio.
C3_OneCycleInFlight ==
    \A w \in Workers : \A v \in Workers \ {w} :
      ~(InCycle(w) /\ InCycle(v) /\ job[w].cur = job[v].cur)

\* C4: no two workers are in the repay loop of _liquidate_all_positions for
\* the same portfolio.
C4_RepayAllNotReentered ==
    \A w \in Workers : \A v \in Workers \ {w} :
      ~(pc[w] = "repay" /\ pc[v] = "repay" /\ job[w].cur = job[v].cur)

\* C5: a finished cycle whose LTV is 0.75 or more went through
\* _emergency_liquidation, the status of its portfolio is emergency, and it
\* issued no borrow and no subscribe request.
C5_EmergencyLiquidates ==
    \A w \in Workers :
      LET c == cyc[w]
      IN  (Finished(c) /\ InEmergency(c.ltv)) =>
            /\ c.handler = "_emergency_liquidation"
            /\ portfolios[c.pid].status = "emergency"
            /\ Kinds(c) \cap {"borrow", "subscribe"} = {}

\* An emergency cycle that redeemed a position and repaid a loan.
C5_Witness ==
    \E w \in Workers :
      /\ Finished(cyc[w]) /\ InEmergency(cyc[w].ltv)
      /\ cyc[w].handler = "_emergency_liquidation"
      /\ Kinds(cyc[w]) = {"redeem", "repay"}

\* C6: when an emergency cycle has ended, the stored status of its portfolio
\* is emergency, whether or not the liquidation and the writes of the report
\* went through.
C6_EmergencyIsStored ==
    \A w \in Workers :
      LET c == cyc[w]
      IN  (Finished(c) /\ c.handler = "_emergency_liquidation") =>
            portfolios[c.pid].status = "emergency"

\* C7: a finished cycle appended exactly one row to the ledger, whichever
\* path it took and whatever its requests returned.
C7_OneTransactionPerCycle ==
    \A w \in Workers : Finished(cyc[w]) => cyc[w].txns = 1

\* A cycle one of whose requests raised.
C7_Witness ==
    \E w \in Workers :
      /\ Finished(cyc[w]) /\ cyc[w].txns = 1
      /\ \E k \in 1..Len(cyc[w].calls) : ~cyc[w].calls[k].ok

\* C8: a stored portfolio row is never a part of a snapshot: its total value
\* is the value of its balances at its prices.
C8_NoPartialSnapshotStored ==
    \A p \in Pids :
      portfolios[p].total_value = portfolios[p].eth_balance * portfolios[p].eth_price
                                + portfolios[p].sol_balance * portfolios[p].sol_price

\* C9: a finished cycle whose LTV is in the danger range, and which read the
\* loans, issued for every BORROWING loan covered by the balance of its coin
\* exactly one repay request, for half the loan, and no borrow request.
C9_DangerRepaysHalfOfEachLoan ==
    \A w \in Workers :
      LET c == cyc[w]
          row == portfolios[c.pid]
          rows == get_loan_data.rows
      IN  (Finished(c) /\ InDanger(c.ltv) /\ c.loans = "read") =>
            /\ "borrow" \notin Kinds(c)
            /\ \A i \in 1..Len(rows) :
                 (rows[i].status = "BORROWING"
                    /\ Covered(rows[i], TRUE, row.eth_balance, row.sol_balance)) =>
                   /\ Cardinality(CallsFor(c, "repay", rows[i].orderId)) = 1
                   /\ \A k \in CallsFor(c, "repay", rows[i].orderId) :
                        REq(c.calls[k].amount, Rat(rows[i].totalAmount, 2))

\* C10: a finished cycle whose LTV is in the safe band ran the harvester,
\* issued no borrow and no repay request, and appended one NORMAL_OPERATION
\* row whose ltv_ratio is the LTV of the snapshot.
C10_SafeBandOnlyHarvests ==
    \A w \in Workers :
      LET c == cyc[w]
      IN  (Finished(c) /\ InSafe(c.ltv)) =>
            /\ c.harvest
            /\ Kinds(c) \cap {"borrow", "repay"} = {}
            /\ c.txns = 1
            /\ ledger[Len(ledger)].user_id = c.pid
            /\ ledger[Len(ledger)].transaction_type = "NORMAL_OPERATION"
            /\ ledger[Len(ledger)].ltv_ratio = c.ltv

\* A cycle at the lower end of the band that harvested a position.
C10_Witness ==
    \E w \in Workers :
      /\ Finished(cyc[w])
      /\ REq(cyc[w].ltv, TARGET_LTV_MIN)
      /\ cyc[w].harvest
      /\ Kinds(cyc[w]) = {"redeem", "subscribe"}
      /\ ledger[Len(ledger)].transaction_type = "NORMAL_OPERATION"

\* The borrow requests of a cycle, and the amount the increase path has to
\* add: the collateral value at the midpoint of the band, less the borrowed
\* value.
Borrows(c) == { k \in 1..Len(c.calls) : c.calls[k].kind = "borrow" }
Additional(c) ==
    RSub(RMul(Whole(c.collateral), RDiv(RAdd(TARGET_LTV_MIN, TARGET_LTV_MAX), Whole(2))),
         Whole(c.borrowed))

\* C11: every borrow request of a finished cycle is for more than 0.001
\* units (so for a positive amount), and a cycle whose additional amount is 0
\* or less issues no borrow request.
C11_BorrowAboveMinimum ==
    \A w \in Workers :
      LET c == cyc[w]
      IN  Finished(c) =>
            /\ \A k \in Borrows(c) : RGt(c.calls[k].amount, Rat(1, 1000))
            /\ RLe(Additional(c), Zero) => Borrows(c) = {}

\* A cycle below the band whose ETH leg is exactly 0.001 units and is left
\* out, while its SOL leg is borrowed.
C11_Witness ==
    \E w \in Workers :
      /\ Finished(cyc[w]) /\ InUnder(cyc[w].ltv)
      /\ REq(RDiv(Rat(Additional(cyc[w]).n, 2 * Additional(cyc[w]).d),
                  Whole(portfolios[cyc[w].pid].eth_price)), Rat(1, 1000))
      /\ { cyc[w].calls[k].ref : k \in Borrows(cyc[w]) } = {"SOL"}

\* The repay requests of a cycle, the loan a repay request is for, and the
\* stored balance of a loan's coin.
Repays(c) == { k \in 1..Len(c.calls) : c.calls[k].kind = "repay" }
LoanOf(ref) == CHOOSE loan \in { get_loan_data.rows[i] : i \in 1..Len(get_loan_data.rows) } :
                   loan.orderId = ref
BalanceOf(p, coin) ==
    IF coin = "ETH" THEN portfolios[p].eth_balance
    ELSE IF coin = "SOL" THEN portfolios[p].sol_balance
    ELSE 0
NoneRaised(c) == \A k \in 1..Len(c.calls) : c.calls[k].ok
OnDecreasePath(c) ==
    \/ c.handler = "_danger_zone_management"
    \/ c.handler = "_normal_operation" /\ c.leverage = "decrease"
Due(c) == IF c.handler = "_danger_zone_management" THEN Rat(5, 10) ELSE Rat(2, 10)

\* C12: no repay request of a finished cycle on the decrease path is for
\* more than the stored balance of the loan's coin; a BORROWING loan whose
\* repay amount the balance does not cover gets no request, and, when the
\* loans were read and no request raised, every BORROWING loan that is covered
\* gets its request, also after a loan that was left out.
C12_RepayWithinBalance ==
    \A w \in Workers :
      LET c == cyc[w]
          rows == get_loan_data.rows
          due(i) == RMul(Whole(rows[i].totalAmount), Due(c))
          covered(i) == /\ rows[i].status = "BORROWING"
                        /\ rows[i].loanCoin \in {"ETH", "SOL"}
                        /\ RLe(due(i), Whole(BalanceOf(c.pid, rows[i].loanCoin)))
      IN  (Finished(c) /\ OnDecreasePath(c)) =>
            /\ \A k \in Repays(c) :
                 RLe(c.calls[k].amount,
                     Whole(BalanceOf(c.pid, LoanOf(c.calls[k].ref).loanCoin)))
            /\ \A i \in 1..Len(rows) :
                 ~covered(i) => CallsFor(c, "repay", rows[i].orderId) = {}
            /\ (c.loans = "read" /\ NoneRaised(c)) =>
                 \A i \in 1..Len(rows) :
                   covered(i) => CallsFor(c, "repay", rows[i].orderId) # {}

\* A cycle that left out a loan the balance does not cover and repaid part of
\* the loan after it.
C12_Witness ==
    \E w \in Workers :
      /\ Finished(cyc[w]) /\ OnDecreasePath(cyc[w]) /\ NoneRaised(cyc[w])
      /\ LET rows == get_loan_data.rows
         IN  /\ Len(rows) = 2
             /\ rows[1].status = "BORROWING"
             /\ RGt(RMul(Whole(rows[1].totalAmount), Due(cyc[w])),
                    Whole(BalanceOf(cyc[w].pid, rows[1].loanCoin)))
             /\ CallsFor(cyc[w], "repay", rows[1].orderId) = {}
             /\ CallsFor(cyc[w], "repay", rows[2].orderId) # {}

\* The amount of the leg of a coin on the increase path.
Leg(c, coin) ==
    RDiv(RMul(Additional(c), Rat(5, 10)),
         Whole(IF coin = "ETH" THEN portfolios[c.pid].eth_price
               ELSE portfolios[c.pid].sol_price))

\* C13: in a finished cycle below the band, a borrow request that raised
\* does not keep the leg of the other coin from being requested when its
\* amount is above the minimum.
C13_BorrowLegsIndependent ==
    \A w \in Workers :
      LET c == cyc[w]
      IN  (Finished(c) /\ InUnder(c.ltv) /\ RGt(Additional(c), Zero)) =>
            \A coin \in Assets :
              (/\ \E k \in Borrows(c) : c.calls[k].ref # coin /\ ~c.calls[k].ok
               /\ RGt(Leg(c, coin), Rat(1, 1000)))
                => \E k \in Borrows(c) : c.calls[k].ref = coin

\* C14: when a cycle whose LTV is 0.75 or more has ended, the last alert
\* stored is of severity CRITICAL and the last ledger row, the one row the
\* cycle appended, is of type EMERGENCY_LIQUIDATION.
C14_EmergencyReportsCritical ==
    \A w \in Workers :
      LET c == cyc[w]
      IN  (Finished(c) /\ InEmergency(c.ltv)) =>
            /\ alerts # << >>
            /\ alerts[Len(alerts)].severity = "CRITICAL"
            /\ c.txns = 1
            /\ ledger[Len(ledger)].transaction_type = "EMERGENCY_LIQUIDATION"

\* C15: when a cycle whose LTV is in the danger range has ended, the last
\* alert stored is of severity WARNING or CRITICAL.
C15_DangerAlertSeverity ==
    \A w \in Workers :
      LET c == cyc[w]
      IN  (Finished(c) /\ InDanger(c.ltv)) =>
            /\ alerts # << >>
            /\ alerts[Len(alerts)].severity \in {"WARNING", "CRITICAL"}

\* C16: a finished cycle whose LTV is above the band and below the danger
\* threshold, and which read the loans, issued for every BORROWING loan
\* covered by the balance of its coin exactly one repay request, for a fifth
\* of the loan, and no borrow request.
C16_OverBandRepaysFifthOfEachLoan ==
    \A w \in Workers :
      LET c == cyc[w]
          row == portfolios[c.pid]
          rows == get_loan_data.rows
      IN  (Finished(c) /\ InOver(c.ltv) /\ c.loans = "read") =>
            /\ Borrows(c) = {}
            /\ \A i \in 1..Len(rows) :
                 (rows[i].status = "BORROWING"
                    /\ Covered(rows[i], FALSE, row.eth_balance, row.sol_balance)) =>
                   /\ Cardinality(CallsFor(c, "repay", rows[i].orderId)) = 1
                   /\ \A k \in CallsFor(c, "repay", rows[i].orderId) :
                        REq(c.calls[k].amount, Rat(rows[i].totalAmount, 5))

C18_LedgerAppendOnly ==
    [][/\ Len(ledger') >= Len(ledger)
       /\ SubSeq(ledger', 1, Len(ledger)) = ledger]_vars

\* Two rows have been appended after the two of the initialization, while a
\* commit of the same behaviour was refused.
C18_Witness ==
    /\ Len(ledger) = Cardinality(Pids) + 2
    /\ alerts = << >>
    /\ \E i \in 1..Len(ledger) : ledger[i].transaction_type = "DANGER_ZONE"

\* A worker is in _update_portfolio_data, or about to enter it.
BuilderAtWork ==
    \E w \in Workers : pc[w] = "value" \/ (pc[w] = "process" /\ job[w].todo # << >>)

\* The LTV of every snapshot at hand is the LTV that the earlier cycles of
\* the behaviour logged from their snapshots.
SameLtvAsBefore ==
    \A w \in Workers :
      cyc[w].snap =>
        \A i \in 1..Len(ledger) :
          ledger[i].transaction_type \in {"NORMAL_OPERATION", "DANGER_ZONE"} =>
            ledger[i].ltv_ratio = cyc[w].ltv

\* C19: with the account and the prices unchanged, a step of
\* _update_portfolio_data appends nothing to the ledger, and the LTV it
\* stores is the LTV of every earlier run.
C19_SnapshotIdempotent ==
    [][/\ BuilderAtWork => ledger' = ledger
       /\ SameLtvAsBefore']_vars

\* A second snapshot of a portfolio whose earlier cycle is in the ledger.
C19_Witness ==
    \E w \in Workers :
      /\ cyc[w].snap /\ pc[w] \in {"normal", "danger"}
      /\ \E i \in 1..Len(ledger) :
           /\ ledger[i].transaction_type \in {"NORMAL_OPERATION", "DANGER_ZONE"}
           /\ ledger[i].user_id = cyc[w].pid
           /\ ledger[i].ltv_ratio = portfolios[cyc[w].pid].current_ltv

\* C20: the step by which a tick finds the guard set leaves the worker idle
\* with nothing to process and no cycle, leaves the guard set, and changes
\* neither the tables, nor any session, nor what the other workers are doing.
C20_SkippedTickDoesNothing ==
    [][\A w \in Schedulers :
         (job[w].op # "skipped" /\ job'[w].op = "skipped") =>
           /\ is_running /\ is_running'
           /\ pc'[w] = "idle"
           /\ job'[w].todo = << >>
           /\ cyc'[w] = NoCycle
           /\ UNCHANGED << account, portfolios, ledger, alerts, pending, last_prices >>
           /\ \A v \in Workers \ {w} : pc'[v] = pc[v] /\ job'[v] = job[v]]_vars

\* A tick was skipped while the pass of the other scheduler is inside the
\* cycle of a portfolio.
C20_Witness ==
    \E w \in Schedulers : \E v \in Schedulers \ {w} :
      /\ job[w].op = "skipped" /\ pc[w] = "idle"
      /\ job[v].op = "tick" /\ InCycle(v)
      /\ is_running

----------------------------------------------------------------------------
(* The guard of run_automation_cycle.                                      *)

\* A scheduler thread is inside a pass from the assignment of line 39 to the
\* finally clause of lines 52-54.
InPass(w) == w \in Schedulers /\ pc[w] \notin {"idle", "acquire"}

LoadFailed == \E i \in 1..Len(alerts) : alerts[i].title = "Strategy Engine Error"

\* C21: the guard is set only while a pass that acquired it is still running:
\* once every such pass has ended, whether its loop ran to the end, the
\* loading of the portfolios raised or the processing of a portfolio raised,
\* the guard is free, so no later tick finds it set.
C21_GuardFreeAfterPass ==
    is_running => \E w \in Schedulers : InPass(w)

\* A pass whose loading of the portfolios raised has ended, a pass is over
\* in which a cycle was aborted, and the guard is free.
C21_Witness ==
    /\ LoadFailed
    /\ \A w \in Workers : pc[w] = "idle"
    /\ ~is_running
    /\ left = 0
    /\ cyc["s1"].op = "tick" /\ cyc["s1"].phase = "aborted"

\* With every request answered or timed out and every thread running on,
\* a guard that is set is cleared again.
GuardEventuallyFree == is_running ~> ~is_running

\* The HTTP requests a cycle made that its record shows: those of the
\* snapshot (account, flexible and locked positions, loans, two prices, and
\* one price per valued loan), the reads that precede the requests it issued
\* (two for the positions, one for the loans), and the requests themselves.
RequestsOf(c) ==
      (IF c.snap THEN 6 + Len(ValuedLoans(get_loan_data)) ELSE 0)
    + (IF Kinds(c) \cap {"redeem", "subscribe"} # {} THEN 2 ELSE 0)
    + (IF "repay" \in Kinds(c) THEN 1 ELSE 0)
    + Len(c.calls)

WaitsOf(c) ==
      (IF c.handler = "_emergency_liquidation" /\ "repay" \in Kinds(c) THEN SETTLE_WAIT ELSE 0)
    + SeqSum([k \in 1..Len(c.calls) |-> c.calls[k].wait])

\* The time the cycle has taken when each of these requests took the whole
\* timeout, whether it was answered at the last moment or timed out.
SlowestSeconds(c) == REQUEST_TIMEOUT * RequestsOf(c) + WaitsOf(c)

\* C22: a cycle is abandoned at a hard deadline, so that slow gateway calls
\* cannot keep the guard held.  The code sets no deadline; the formula takes
\* the longest one that still lets the next tick of the timer find the guard
\* free, the interval of the scheduler, and says that no cycle of a tick
\* goes on past it.
C22_CycleEndsByDeadline ==
    \A w \in Schedulers :
        cyc[w].op = "tick" => SlowestSeconds(cyc[w]) <= SCHEDULER_INTERVAL

----------------------------------------------------------------------------
(* The liquidation sequence.                                               *)

CallsOfKind(c, kind) == { k \in 1..Len(c.calls) : c.calls[k].kind = kind }

Liquidated(c) == c.handler = "_emergency_liquidation" /\ c.phase = "done"

Borrowing == SelectSeq(account.loans, LAMBDA loan : loan.status = "BORROWING")

RedeemsFirst(c) ==
    \A i, k \in 1..Len(c.calls) :
        (c.calls[i].kind = "redeem" /\ c.calls[k].kind = "repay") => i < k

RepaidInFull(c) ==
    \A n \in 1..Len(Borrowing) :
        \E k \in 1..Len(c.calls) :
            /\ c.calls[k].kind = "repay"
            /\ c.calls[k].ref = Borrowing[n].orderId
            /\ REq(c.calls[k].amount, Whole(Borrowing[n].totalAmount))

\* C23: in a liquidation the status of the portfolio object is emergency
\* from before the first redeem request, every redeem request comes before
\* the first repay request, and every BORROWING loan gets a repay request
\* for its whole outstanding amount.
C23_LiquidationSequence ==
    \A w \in Workers :
        /\ pc[w] \in {"settle", "repay"} =>
               Attr(Session(w), job[w].cur, "status") = "emergency"
        /\ Liquidated(cyc[w]) => RedeemsFirst(cyc[w]) /\ RepaidInFull(cyc[w])

\* The redeem requests and the repay requests a liquidation has to issue.
RedeemsDue == RedeemPlan(get_earn_balance)
RepaysDue == RepayAllPlan(get_loan_data)

Failed(c, kind) == { k \in 1..Len(c.calls) : c.calls[k].kind = kind /\ ~c.calls[k].ok }

\* C24: a redeem request that fails keeps neither the redeems of the other
\* positions nor the repays from being issued, and a repay request that
\* fails does not keep the repays of the other loans from being issued.
C24_LiquidationBestEffort ==
    \A w \in Workers :
        LET c == cyc[w]
        IN  Liquidated(c) =>
              /\ Failed(c, "redeem") # {} =>
                     /\ Cardinality(CallsOfKind(c, "redeem")) = Len(RedeemsDue)
                     /\ Cardinality(CallsOfKind(c, "repay")) = Len(RepaysDue)
              /\ Failed(c, "repay") # {} =>
                     Cardinality(CallsOfKind(c, "repay")) = Len(RepaysDue)

----------------------------------------------------------------------------
(* The harvester.                                                          *)

Harvested(c) == c.phase = "done" /\ c.harvest

\* C25: a redeem or subscribe request of the harvester that fails does not
\* keep the other harvestable positions from being harvested: each of them
\* still gets its redeem request.
C25_HarvestPerPosition ==
    \A w \in Workers :
        LET c == cyc[w]
            pos == Harvestable(get_earn_balance)
        IN  (Harvested(c) /\ Failed(c, "redeem") \cup Failed(c, "subscribe") # {}) =>
                \A n \in 1..Len(pos) : CallsFor(c, "redeem", pos[n].productId) # {}

----------------------------------------------------------------------------
(* The decrease path.                                                      *)

\* C26: on the decrease path a repay request that fails does not keep the
\* other loans from their repay attempts: every BORROWING loan that the
\* balance of its coin covers still gets a repay request.
C26_RepayPerLoan ==
    \A w \in Workers :
        LET c == cyc[w]
            row == portfolios[c.pid]
            rows == get_loan_data.rows
            aggressive == c.handler = "_danger_zone_management"
        IN  (Finished(c) /\ OnDecreasePath(c) /\ Failed(c, "repay") # {}) =>
                \A i \in 1..Len(rows) :
                    (rows[i].status = "BORROWING"
                       /\ Covered(rows[i], aggressive, row.eth_balance, row.sol_balance)) =>
                      CallsFor(c, "repay", rows[i].orderId) # {}

\* C27: in a finished cycle every subscribe request of the harvester comes
\* directly after a redeem request for the same product and the same amount
\* that returned, with the pause of the harvester between the two; and a
\* flexible position with nothing free, or in an asset other than ETH and
\* SOL, gets neither a redeem nor a subscribe request.
C27_SubscribeFollowsRedeem ==
    \A w \in Workers :
        LET c == cyc[w]
            flexible == get_earn_balance.flexible
        IN  (Harvested(c) /\ c.handler = "_normal_operation") =>
              /\ \A k \in CallsOfKind(c, "subscribe") :
                   /\ k > 1
                   /\ c.calls[k - 1].kind = "redeem"
                   /\ c.calls[k - 1].ok
                   /\ c.calls[k - 1].ref = c.calls[k].ref
                   /\ REq(c.calls[k - 1].amount, c.calls[k].amount)
                   /\ c.calls[k].wait = HARVEST_PAUSE
              /\ \A n \in 1..Len(flexible) :
                   (flexible[n].freeAmount = 0 \/ flexible[n].asset \notin Assets) =>
                      /\ CallsFor(c, "redeem", flexible[n].productId) = {}
                      /\ CallsFor(c, "subscribe", flexible[n].productId) = {}

\* Both harvestable positions were redeemed and subscribed again, and the
\* positions in BTC and with nothing free were left alone.
C27_Witness ==
    \E w \in Workers :
        LET c == cyc[w]
        IN  /\ Harvested(c) /\ c.handler = "_normal_operation"
            /\ Cardinality(CallsOfKind(c, "subscribe")) = 2
            /\ CallsFor(c, "subscribe", "E1") # {} /\ CallsFor(c, "subscribe", "S1") # {}
            /\ CallsFor(c, "redeem", "B1") = {} /\ CallsFor(c, "redeem", "E2") = {}

\* C28: a finished cycle whose LTV is in the danger range or past the
\* emergency threshold did not run the harvester and issued no subscribe
\* request, and one in the danger range issued no redeem request either.
C28_NoHarvestUnderStress ==
    \A w \in Workers :
        LET c == cyc[w]
        IN  /\ (Finished(c) /\ (InDanger(c.ltv) \/ InEmergency(c.ltv))) =>
                 ~c.harvest /\ CallsOfKind(c, "subscribe") = {}
            /\ (Finished(c) /\ InDanger(c.ltv)) => CallsOfKind(c, "redeem") = {}

\* A cycle in the danger range, on an account with harvestable positions,
\* that issued its repay and nothing else.
C28_Witness ==
    /\ Harvestable(get_earn_balance) # << >>
    /\ \E w \in Workers :
         LET c == cyc[w]
         IN  /\ Finished(c) /\ InDanger(c.ltv)
             /\ Kinds(c) = {"repay"}

----------------------------------------------------------------------------
(* Cycles that end in _update_portfolio_data.                              *)

\* The status of a portfolio as a worker's session shows it.
StatusSeen(w, p) == Attr(Session(w), p, "status")

\* C29: a cycle that ends in the building of its snapshot (a read raised or
\* the commit was refused) has issued no borrow, repay, redeem or subscribe
\* request and appended no ledger row, and no step of the builder appends to
\* the ledger or changes the status of a portfolio, in the table or on the
\* object.
C29_AbortedCycleMutatesNothing ==
    [][/\ BuilderAtWork =>
            /\ ledger' = ledger
            /\ \A p \in Pids : portfolios'[p].status = portfolios[p].status
            /\ \A w \in Workers, p \in Pids : StatusSeen(w, p)' = StatusSeen(w, p)
       /\ \A w \in Workers :
            cyc'[w].phase = "aborted" => cyc'[w].calls = << >> /\ cyc'[w].txns = 0]_vars

\* The second cycle of a pass was aborted after the first one had run to
\* its end and logged its row.
C29_Witness ==
    \E w \in Schedulers :
        /\ cyc[w].phase = "aborted" /\ cyc[w].pid = 2
        /\ pc[w] = "process"
        /\ \E i \in 1..Len(ledger) :
             ledger[i].user_id = 1 /\ ledger[i].transaction_type # "INITIALIZATION"
        /\ portfolios[2].status = "active"

----------------------------------------------------------------------------
(* The alert of a cycle under stress.                                      *)

\* Worker w ends a classified cycle in the danger or the emergency handler.
Reports(w) ==
    /\ cyc[w].phase = "running"
    /\ cyc'[w].phase = "done" /\ cyc'[w].snap
    /\ cyc'[w].handler \in {"_danger_zone_management", "_emergency_liquidation"}

\* C30: when the alert of a DANGER or EMERGENCY cycle could not be stored,
\* the cycle is not undone: the ledger row it then writes is appended as it
\* would have been, and with it the status that an EMERGENCY cycle has set is
\* in the table.  (A ledger write that the database refuses on its own is
\* not held against the alert.)
C30_AlertFailureHarmless ==
    [][\A w \in Workers :
         (Reports(w) /\ alerts' = alerts /\ ledger' # ledger) =>
            /\ Len(ledger') = Len(ledger) + 1
            /\ ledger'[Len(ledger')].user_id = cyc'[w].pid
            /\ cyc'[w].handler = "_emergency_liquidation" =>
                   portfolios'[cyc'[w].pid].status = "emergency"]_vars

----------------------------------------------------------------------------
(* Failures of the gateway.                                                *)

\* A cycle that has ended and in which a read or a request of its handler
\* raised.  _make_request raises the same RequestException for a rejected
\* key (HTTP 401) as for any other failure, so each of them may be an
\* authentication failure.
FailedCycle(c) == c.phase = "done" /\ c.raised

CriticalAlert(log) == \E i \in 1..Len(log) : log[i].severity = "CRITICAL"

\* C31: when a cycle has ended in which a gateway call failed for want of
\* valid credentials, a critical alert has been raised, and no later cycle
\* of a tick reads the account for that portfolio again.
C31_AuthFailureIsFatal ==
    [][\A w \in Workers :
         /\ FailedCycle(cyc'[w]) => CriticalAlert(alerts')
         /\ \A v \in Workers \ {w} :
              (/\ pc[v] = "idle" /\ FailedCycle(cyc[v])
               /\ job[w].op = "tick" /\ pc[w] = "process" /\ pc'[w] = "value") =>
                 cyc'[w].pid # cyc[v].pid]_vars

----------------------------------------------------------------------------
(* The status of a portfolio.                                              *)

\* Worker w ends a liquidation of portfolio p that the risk check of a cycle
\* or the operator's emergency stop has started.
EndsLiquidation(w, p) ==
    /\ cyc[w].phase = "running" /\ cyc'[w].phase = "done"
    /\ cyc'[w].pid = p /\ cyc'[w].handler = "_emergency_liquidation"
    /\ cyc'[w].op = "estop" \/ (cyc'[w].snap /\ InEmergency(cyc'[w].ltv))

\* C32: a step changes the stored status of a portfolio only if it is a
\* start or stop request of the operator, or the end of a liquidation, which
\* stores emergency; a status is never set on a portfolio object except to
\* emergency, in a liquidation of that portfolio; and so a status of
\* emergency, liquidated or paused goes back to active only by the
\* operator's start request.
C32_StatusOnlyEscalates ==
    [][/\ \A p \in Pids :
            portfolios'[p].status # portfolios[p].status =>
               \/ left' # left /\ portfolios'[p].status \in {"active", "paused"}
               \/ /\ portfolios'[p].status = "emergency"
                  /\ \E w \in Workers : EndsLiquidation(w, p)
       /\ \A w \in Workers, p \in Pids :
            "status" \in pending'[w][p].dirty =>
               /\ pending'[w][p].val.status = "emergency"
               /\ cyc'[w].pid = p /\ cyc'[w].handler = "_emergency_liquidation"
               /\ cyc'[w].op = "estop" \/ (cyc'[w].snap /\ InEmergency(cyc'[w].ltv))
       /\ \A p \in Pids :
            (portfolios[p].status # "active" /\ portfolios'[p].status = "active") =>
               (left' # left /\ pc' = pc)]_vars

\* The cycle of a tick past the emergency threshold has ended and emergency
\* is the stored status of its portfolio.
C32_Witness ==
    \E w \in Schedulers :
        /\ Finished(cyc[w]) /\ InEmergency(cyc[w].ltv)
        /\ portfolios[cyc[w].pid].status = "emergency"
        /\ left = 0

----------------------------------------------------------------------------
(* Stop requests and the pass of a tick.                                   *)

Members(s) == { s[i] : i \in 1..Len(s) }

Handling == {"normal", "danger", "emergency", "settle", "repay"}

\* C33: the list a tick loads holds no portfolio whose stored status is
\* paused, and the tick starts cycles for the portfolios of its list only;
\* a stop request changes nothing of a worker that is under way, and a
\* handler that is under way ends its cycle as done, paused or not.
C33_PauseKeepsOutOfNextTick ==
    [][\A w \in Schedulers :
         /\ (pc[w] = "acquire" /\ pc'[w] = "process") =>
               \A p \in Members(job'[w].todo) : portfolios[p].status # "paused"
         /\ (pc[w] = "process" /\ job'[w] # job[w] /\ pc'[w] # "idle") =>
               /\ job[w].todo # << >>
               /\ job'[w].todo = Tail(job[w].todo)
               /\ cyc'[w].pid = Head(job[w].todo)
         /\ (pc[w] # "idle" /\ \E p \in Pids : portfolios'[p].status = "paused"
                                              /\ portfolios[p].status # "paused") =>
               (pc'[w] = pc[w] /\ job'[w] = job[w] /\ cyc'[w] = cyc[w])
         /\ (pc[w] \in Handling /\ pc'[w] \notin Handling) =>
               cyc'[w].phase = "done"]_vars

\* A cycle of a tick for a portfolio that was paused while the tick was
\* under way has run to its end and issued its repay.
C33_Witness ==
    \E w \in Schedulers :
        /\ Finished(cyc[w]) /\ cyc[w].op = "tick"
        /\ portfolios[cyc[w].pid].status = "paused"
        /\ "repay" \in Kinds(cyc[w])

----------------------------------------------------------------------------
(* The decision of a cycle as a function of its snapshot.                  *)

\* Two cycles took the same snapshot: the account and the prices are those
\* of the behaviour, and both stored the same balances, value and LTV.
SameSnapshot(c, d) ==
    /\ c.ltv = d.ltv /\ c.borrowed = d.borrowed /\ c.collateral = d.collateral
    /\ \A f \in Fields \ {"status"} : portfolios[c.pid][f] = portfolios[d.pid][f]

Undisturbed(c) == Finished(c) /\ ~c.raised

----------------------------------------------------------------------------
(* The band of a portfolio.                                                *)

\* C35: for every portfolio the stored minimum is below the stored maximum,
\* the maximum below the danger threshold and the danger threshold below the
\* emergency threshold, whatever settings requests were accepted.
C35_ThresholdsOrdered ==
    \A p \in Pids :
        /\ RLt(portfolios[p].target_ltv_min, portfolios[p].target_ltv_max)
        /\ RLt(portfolios[p].target_ltv_max, DANGER_LTV)
        /\ RLt(DANGER_LTV, EMERGENCY_LTV)

\* The leverage decision and the additional amount against the band stored
\* for the portfolio of a cycle.
OwnBranch(c) ==
    LET row == portfolios[c.pid]
    IN  IF RLt(c.ltv, row.target_ltv_min) THEN "increase"
        ELSE IF RGt(c.ltv, row.target_ltv_max) THEN "decrease"
        ELSE "none"

OwnAdditional(c) ==
    LET row == portfolios[c.pid]
    IN  RSub(RMul(Whole(c.collateral),
                  RDiv(RAdd(row.target_ltv_min, row.target_ltv_max), Whole(2))),
             Whole(c.borrowed))

\* C36: a finished cycle of _normal_operation took its leverage decision
\* against the minimum and maximum stored for its portfolio, and each of its
\* borrow requests is for half of the amount that leads to the midpoint of
\* that band, at the stored price of its coin.
C36_OwnBandDecides ==
    \A w \in Workers :
        LET c == cyc[w]
            row == portfolios[c.pid]
        IN  (Finished(c) /\ c.handler = "_normal_operation") =>
              /\ c.leverage = OwnBranch(c)
              /\ \A k \in Borrows(c) :
                   REq(c.calls[k].amount,
                       RDiv(RDiv(OwnAdditional(c), Whole(2)),
                            Whole(IF c.calls[k].ref = "ETH" THEN row.eth_price
                                  ELSE row.sol_price)))

\* The value at the venue's prices of the loans of the account that are in
\* one of the given states and coins.
DebtOver(states, coins) ==
    SeqSum([i \in 1..Len(account.loans) |->
              IF account.loans[i].status \in states /\ account.loans[i].loanCoin \in coins
              THEN account.loans[i].totalAmount * price[account.loans[i].loanCoin]
              ELSE 0])

OtherBorrowing ==
    { i \in 1..Len(account.loans) :
        /\ account.loans[i].status = "BORROWING"
        /\ account.loans[i].loanCoin \notin Assets
        /\ account.loans[i].totalAmount > 0 }

DebtAtStoredPrices(p) ==
    SeqSum([i \in 1..Len(account.loans) |->
              IF account.loans[i].status = "BORROWING" /\ account.loans[i].loanCoin \in Assets
              THEN account.loans[i].totalAmount *
                   (IF account.loans[i].loanCoin = "ETH" THEN portfolios[p].eth_price
                    ELSE portfolios[p].sol_price)
              ELSE 0])

\* C38: the borrowed value of a snapshot values the loans of an asset at the
\* price that the snapshot stored on the portfolio for that asset, the price
\* at which it valued the collateral.
C38_OnePricePerSnapshot ==
    \A w \in Workers :
        LET c == cyc[w]
        IN  c.snap =>
              /\ c.collateral = portfolios[c.pid].eth_balance * portfolios[c.pid].eth_price
                              + portfolios[c.pid].sol_balance * portfolios[c.pid].sol_price
              /\ c.borrowed = DebtAtStoredPrices(c.pid)

\* The sum of the amounts of the repay requests of a cycle, from request k
\* on, for loans in a coin.
RECURSIVE RepaidFrom(_, _, _)
RepaidFrom(c, coin, k) ==
    IF k > Len(c.calls) THEN Zero
    ELSE RAdd(IF c.calls[k].kind = "repay" /\ LoanOf(c.calls[k].ref).loanCoin = coin
              THEN c.calls[k].amount ELSE Zero,
              RepaidFrom(c, coin, k + 1))

\* C39: the repay requests of a cycle on the decrease path for the loans in
\* one coin add up to no more than the balance of that coin stored on the
\* portfolio by the cycle's snapshot.
C39_RepaysWithinBalance ==
    \A w \in Workers :
        LET c == cyc[w]
        IN  (Finished(c) /\ OnDecreasePath(c)) =>
              \A coin \in Assets :
                  RLe(RepaidFrom(c, coin, 1), Whole(BalanceOf(c.pid, coin)))

----------------------------------------------------------------------------
(* The list of a pass.                                                     *)

NoRepeat(s) == \A i, k \in 1..Len(s) : s[i] = s[k] => i = k

============================================================================
